---- MODULE Spec2Model ----
(***************************************************************************)
(* Verification model of the health dashboard's derivation pipeline:       *)
(*   src/src/compute_phase1.py  (zones, HRR1, sleep score, metric series,  *)
(*                               daily merge)                              *)
(*   src/app.py                 (status classifier, rolling trend layer)   *)
(*                                                                         *)
(* Every function of the pipeline is a pure function of its arguments.     *)
(* Each specification below draws the arguments of one function from a     *)
(* bounded set (Init) and applies the function (its single action).        *)
(*                                                                         *)
(* Numbers.  Python floats are modelled as exact rationals <<n, d>> in     *)
(* lowest terms with d > 0; NaN is <<0, 0>>, +inf and -inf are <<1, 0>>   *)
(* and <<-1, 0>>.                                                          *)
(* Python None is the empty tuple.  A timestamp string is the tuple        *)
(* <<day, second of day, utc offset in hours>> it parses to.               *)
(***************************************************************************)
EXTENDS Integers, Sequences, FiniteSets, TLC

VARIABLES
    pc,     \* "call" before the function under check has run, "done" after
    fn,     \* name of the function under check
    args,   \* its arguments
    ret     \* its return value (None before the call)

vars == <<pc, fn, args, ret>>

None == <<>>

(***************************************************************************)
(* Bounds of the input sets                                                *)
(***************************************************************************)
HRDen == 2          \* heart-rate inputs are multiples of 1/HRDen bpm
MaxHR == 160        \* largest heart-rate input, bpm
SleepDen == 2       \* sleep inputs are multiples of 1/SleepDen hours
MaxSleepHr == 12    \* largest sleep_total_hr input, hours
MaxAwakeHr == 4     \* largest sleep_awake_hr input, hours
ValueDen == 2       \* status values are multiples of 1/ValueDen
MaxValue == 8       \* largest status value / band edge

(***************************************************************************)
(* Exact arithmetic standing in for float arithmetic                       *)
(***************************************************************************)
Abs(x) == IF x < 0 THEN -x ELSE x

Sign(x) == IF x < 0 THEN -1 ELSE IF x > 0 THEN 1 ELSE 0

RECURSIVE GCD(_, _)
GCD(a, b) == IF b = 0 THEN a ELSE GCD(b, a % b)

Rat(n, d) ==
    LET s == IF d < 0 THEN -1 ELSE 1
        g == GCD(Abs(n), Abs(d))
    IN  <<(s * n) \div g, (s * d) \div g>>

R(n) == <<n, 1>>

NaN == <<0, 0>>

IsFinite(x) == x[2] > 0

IsNaN(x) == x = NaN

Add(a, b) ==
    IF IsFinite(a) /\ IsFinite(b)
    THEN Rat(a[1] * b[2] + b[1] * a[2], a[2] * b[2])
    ELSE NaN

Neg(a) == <<-a[1], a[2]>>

Sub(a, b) == Add(a, Neg(b))

Mul(a, b) ==
    IF IsFinite(a) /\ IsFinite(b) THEN Rat(a[1] * b[1], a[2] * b[2]) ELSE NaN

Div(a, b) ==
    IF ~(IsFinite(a) /\ IsFinite(b)) THEN NaN
    ELSE IF b[1] = 0 THEN <<Sign(a[1]), 0>>
    ELSE Rat(a[1] * b[2], a[2] * b[1])

\* comparisons are False as soon as an operand is NaN, as for floats
Le(a, b) == IsFinite(a) /\ IsFinite(b) /\ a[1] * b[2] <= b[1] * a[2]

Lt(a, b) == IsFinite(a) /\ IsFinite(b) /\ a[1] * b[2] < b[1] * a[2]

Ge(a, b) == Le(b, a)

Gt(a, b) == Lt(b, a)

\* Series.clip(lo, hi): raise to lo, then lower to hi; NaN stays NaN
Clip(x, lo, hi) ==
    IF ~IsFinite(x) THEN x
    ELSE LET y == IF Lt(x, lo) THEN lo ELSE x
         IN  IF Gt(y, hi) THEN hi ELSE y

\* dict.get(key, default)
Get(d, k, default) == IF k \in DOMAIN d THEN d[k] ELSE default

Range(s) == {s[i] : i \in DOMAIN s}

\* F applied to the value of v, v being evaluated once
Bind(v, F(_)) == CHOOSE r \in {F(x) : x \in {v}} : TRUE

(***************************************************************************)
(* compute_phase1.py: heart-rate zones                                     *)
(***************************************************************************)
ZONES ==
    << <<"Z1", None, R(105)>>,
       <<"Z2", R(106), R(122)>>,
       <<"Z3", R(123), R(135)>>,
       <<"Z4", R(136), R(148)>>,
       <<"Z5", R(149), None>> >>

ZoneNames == {ZONES[i][1] : i \in DOMAIN ZONES}

RECURSIVE classify_from(_, _)
classify_from(i, hr) ==
    IF i > Len(ZONES) THEN "UNK"
    ELSE LET z  == ZONES[i][1]
             lo == ZONES[i][2]
             hi == ZONES[i][3]
         IN  IF lo = None /\ Le(hr, hi) THEN z
             ELSE IF hi = None /\ Ge(hr, lo) THEN z
             ELSE IF lo # None /\ hi # None /\ Le(lo, hr) /\ Le(hr, hi) THEN z
             ELSE classify_from(i + 1, hr)

_classify_zone(hr) == classify_from(1, hr)

HRValues == {Rat(n, HRDen) : n \in 0..(MaxHR * HRDen)}

InitZone ==
    /\ pc = "call"
    /\ fn = "_classify_zone"
    /\ args \in {<<v>> : v \in HRValues}
    /\ ret = None

CallClassifyZone ==
    /\ pc = "call"
    /\ fn = "_classify_zone"
    /\ ret' = _classify_zone(args[1])
    /\ pc' = "done"
    /\ UNCHANGED <<fn, args>>

SpecZone == InitZone /\ [][CallClassifyZone]_vars

\* C2: every heart-rate value gets exactly one label and the five bands leave
\* no gap: nothing between 105 and 106, 122 and 123, 135 and 136, 148 and 149
\* (nor anywhere else) is classified UNKNOWN.
C2_ZonesPartition ==
    (pc = "done" /\ fn = "_classify_zone") =>
        /\ ret \in ZoneNames
        /\ \A i \in DOMAIN ZONES :
              (ret = ZONES[i][1]) <=>
                  /\ (i > 1 => Gt(args[1], ZONES[i - 1][3]))
                  /\ (i < Len(ZONES) => Le(args[1], ZONES[i][3]))

(***************************************************************************)
(* compute_phase1.py: sleep score                                          *)
(***************************************************************************)
\* a DataFrame is [columns |-> sequence of names, rows |-> sequence of
\* records]; pd.DataFrame([]) has neither columns nor rows
EmptyFrame == [columns |-> <<>>, rows |-> <<>>]

empty(df) == df.rows = <<>> \/ df.columns = <<>>

\* mutant: the awake penalty is deducted from the duration score, not from a base of 30
Mutant_sleep_score_row(r) ==
    LET duration       == Clip(r.sleep_total_hr, R(0), R(9))
        duration_score == Mul(Clip(Div(duration, Rat(15, 2)), R(0), R(1)), R(70))
        awake          == Clip(r.sleep_awake_hr, R(0), R(3))
        awake_penalty  == Mul(Clip(Div(awake, R(1)), R(0), R(1)), R(30))
    IN  [date |-> r.date,
         sleep_score_derived |->
             Clip(Sub(duration_score, awake_penalty), R(0), R(100))]

sleep_score_row(r) ==
    LET duration       == Clip(r.sleep_total_hr, R(0), R(9))
        duration_score == Mul(Clip(Div(duration, Rat(15, 2)), R(0), R(1)), R(70))
        awake          == Clip(r.sleep_awake_hr, R(0), R(3))
        awake_penalty  == Mul(Clip(Div(awake, R(1)), R(0), R(1)), R(30))
    IN  [date |-> r.date,
         sleep_score_derived |->
             Clip(Add(duration_score, Sub(R(30), awake_penalty)), R(0), R(100))]

derive_sleep_score(df_sleep) ==
    IF empty(df_sleep) THEN df_sleep
    ELSE [columns |-> <<"date", "sleep_score_derived">>,
          rows    |-> [i \in DOMAIN df_sleep.rows |-> sleep_score_row(df_sleep.rows[i])]]

SleepTotals == {Rat(n, SleepDen) : n \in (-2 * SleepDen)..(MaxSleepHr * SleepDen)}

SleepAwakes == {Rat(n, SleepDen) : n \in (-1 * SleepDen)..(MaxAwakeHr * SleepDen)}

SleepFrames ==
    {EmptyFrame} \cup
    {[columns |-> <<"date", "sleep_total_hr", "sleep_awake_hr">>,
      rows    |-> <<[date |-> 1, sleep_total_hr |-> t, sleep_awake_hr |-> a]>>] :
        t \in SleepTotals, a \in SleepAwakes}

InitSleep ==
    /\ pc = "call"
    /\ fn = "derive_sleep_score"
    /\ args \in {<<f>> : f \in SleepFrames}
    /\ ret = None

CallDeriveSleepScore ==
    /\ pc = "call"
    /\ fn = "derive_sleep_score"
    /\ ret' = derive_sleep_score(args[1])
    /\ pc' = "done"
    /\ UNCHANGED <<fn, args>>

SpecSleep == InitSleep /\ [][CallDeriveSleepScore]_vars

RMin(a, b) == IF Le(a, b) THEN a ELSE b

RMax(a, b) == IF Ge(a, b) THEN a ELSE b

\* the score the formula of the claim gives, written with min and max
ExpectedSleepScore(total, awake) ==
    LET dur == Mul(R(70), RMax(R(0), RMin(R(1),
                   Div(RMax(R(0), RMin(R(9), total)), Rat(15, 2)))))
        pen == Mul(R(30), RMax(R(0), RMin(R(1), RMax(R(0), RMin(R(3), awake)))))
    IN  RMax(R(0), RMin(R(100), Add(dur, Sub(R(30), pen))))

SleepDone == pc = "done" /\ fn = "derive_sleep_score" /\ ~empty(args[1])

\* C4: for every (sleep_total_hr, sleep_awake_hr), negative and large values
\* included, the derived score is clamp(70*clamp(clamp(total,0,9)/7.5,0,1)
\* + (30 - 30*clamp(clamp(awake,0,3),0,1)), 0, 100), lies in [0, 100], and
\* (0,0) gives 30, (7.5,0) gives 100, (7.5,1) gives 70.
C4_SleepScore ==
    SleepDone =>
        LET r     == args[1].rows[1]
            score == ret.rows[1].sleep_score_derived
        IN  /\ Len(ret.rows) = 1
            /\ ret.rows[1].date = r.date
            /\ score = ExpectedSleepScore(r.sleep_total_hr, r.sleep_awake_hr)
            /\ Le(R(0), score) /\ Le(score, R(100))
            /\ (r.sleep_total_hr = R(0) /\ r.sleep_awake_hr = R(0)) => score = R(30)
            /\ (r.sleep_total_hr = Rat(15, 2) /\ r.sleep_awake_hr = R(0)) => score = R(100)
            /\ (r.sleep_total_hr = Rat(15, 2) /\ r.sleep_awake_hr = R(1)) => score = R(70)

\* witness of C4: a negative total with a very large awake time was scored
C4_Witness ==
    /\ SleepDone
    /\ Lt(args[1].rows[1].sleep_total_hr, R(0))
    /\ Gt(args[1].rows[1].sleep_awake_hr, R(3))
    /\ ret.rows[1].sleep_score_derived = R(0)

(***************************************************************************)
(* app.py: status classifier                                               *)
(***************************************************************************)
in_band(v, lo, hi) == Ge(v, lo) /\ Lt(v, hi)

\* mutant: range_best takes its borderline band from the yellow band
Mutant_status(value, spec) ==
    LET direction == Get(spec, "direction", "higher_better")
        g0 == spec.green[1]
        g1 == spec.green[2]
        y0 == spec.yellow[1]
        y1 == spec.yellow[2]
    IN  IF in_band(value, g0, g1) THEN <<"On target", "green">>
        ELSE IF direction \in {"range_best", "higher_better", "lower_better"}
                /\ in_band(value, y0, y1) THEN <<"Borderline", "orange">>
        ELSE IF direction \in {"range_best", "higher_better", "lower_better"}
             THEN <<"Off target", "red">>
        ELSE <<"Borderline", "orange">>

status(value, spec) ==
    LET direction == Get(spec, "direction", "higher_better")
        g0 == spec.green[1]
        g1 == spec.green[2]
        y0 == spec.yellow[1]
        y1 == spec.yellow[2]
        r0 == spec.red[1]
        r1 == spec.red[2]
    IN  IF direction = "range_best" THEN
            IF in_band(value, g0, g1) THEN <<"On target", "green">>
            ELSE IF \/ (Le(Sub(g0, R(1)), value) /\ Lt(value, g0))
                    \/ (Le(g1, value) /\ Le(value, Add(g1, R(1))))
                 THEN <<"Borderline", "orange">>
            ELSE <<"Off target", "red">>
        ELSE IF direction = "higher_better" THEN
            IF in_band(value, g0, g1) THEN <<"On target", "green">>
            ELSE IF in_band(value, y0, y1) THEN <<"Borderline", "orange">>
            ELSE <<"Off target", "red">>
        ELSE IF direction = "lower_better" THEN
            IF in_band(value, g0, g1) THEN <<"On target", "green">>
            ELSE IF in_band(value, y0, y1) THEN <<"Borderline", "orange">>
            ELSE <<"Off target", "red">>
        ELSE <<"Borderline", "orange">>

StatusValues == {Rat(n, ValueDen) : n \in (-1 * ValueDen)..(MaxValue * ValueDen)}

GreenBands == {<<R(a), R(b)>> : a, b \in {2, 4, 5}}

YellowBands == {<<R(1), R(2)>>, <<R(0), R(MaxValue)>>}

RedBands == {<<R(0), R(1)>>, <<R(0), R(MaxValue)>>}

TargetSpecs ==
    {[direction |-> d, green |-> g, yellow |-> y, red |-> r] :
        d \in {"range_best", "higher_better", "lower_better", "nearest_best"},
        g \in GreenBands, y \in YellowBands, r \in RedBands}
    \cup
    {[green |-> g, yellow |-> y, red |-> r] :
        g \in GreenBands, y \in YellowBands, r \in RedBands}

InitStatus ==
    /\ pc = "call"
    /\ fn = "status"
    /\ args \in {<<v, t>> : v \in StatusValues, t \in TargetSpecs}
    /\ ret = None

CallStatus ==
    /\ pc = "call"
    /\ fn = "status"
    /\ ret' = status(args[1], args[2])
    /\ pc' = "done"
    /\ UNCHANGED <<fn, args>>

SpecStatus == InitStatus /\ [][CallStatus]_vars

RangeBestDone ==
    /\ pc = "done"
    /\ fn = "status"
    /\ "direction" \in DOMAIN args[2]
    /\ args[2].direction = "range_best"

\* C8: with direction range_best, status is on-target exactly when
\* green_lo <= v < green_hi, borderline exactly when v is not on-target and is
\* at most 1 below green_lo or at most 1 above green_hi, off-target otherwise;
\* the three outcomes exclude each other and the yellow and red bands have no
\* influence.
C8_RangeBest ==
    RangeBestDone =>
        LET v  == args[1]
            g0 == args[2].green[1]
            g1 == args[2].green[2]
            on == Le(g0, v) /\ Lt(v, g1)
            below == Lt(v, g0) /\ Le(Sub(g0, v), R(1))
            above == Ge(v, g1) /\ Le(Sub(v, g1), R(1))
            border == ~on /\ (below \/ above)
        IN  /\ ret[1] \in {"On target", "Borderline", "Off target"}
            /\ (ret[1] = "On target") <=> on
            /\ (ret[1] = "Borderline") <=> border
            /\ (ret[1] = "Off target") <=> (~on /\ ~border)
            /\ \A y \in YellowBands, r \in RedBands :
                  status(v, [args[2] EXCEPT !.yellow = y, !.red = r]) = ret

\* witness of C8: a value exactly 1 above green_hi, inside no yellow band, is
\* borderline
C8_Witness ==
    /\ RangeBestDone
    /\ args[1] = Add(args[2].green[2], R(1))
    /\ ~in_band(args[1], args[2].yellow[1], args[2].yellow[2])
    /\ ~in_band(args[1], args[2].green[1], args[2].green[2])
    /\ ret[1] = "Borderline"

(***************************************************************************)
(* pandas helpers shared by the trend layer and the daily pipeline         *)
(***************************************************************************)
RECURSIVE SeqSum(_)
SeqSum(s) == IF s = <<>> THEN R(0) ELSE Add(s[1], SeqSum(Tail(s)))

NotNaN(x) == ~IsNaN(x)

\* Series.sum(): NaN entries are skipped
sum(s) == SeqSum(SelectSeq(s, NotNaN))

\* mutant: the last value of the group stands for the group
Mutant_mean(s) == s[Len(s)]

\* Series.mean(): NaN entries are skipped, NaN when nothing is left
mean(s) ==
    LET present == SelectSeq(s, NotNaN)
    IN  IF present = <<>> THEN NaN ELSE Div(SeqSum(present), R(Len(present)))

\* series.rolling(n, min_periods=minp).mean(): at row i the window is the
\* last n ROWS up to i; NaN unless at least minp of them are not NaN
rolling(series, n, minp) ==
    [i \in DOMAIN series |->
        LET lo      == IF i - n + 1 < 1 THEN 1 ELSE i - n + 1
            window  == SubSeq(series, lo, i)
            present == SelectSeq(window, NotNaN)
        IN  IF Len(present) >= minp THEN mean(window) ELSE NaN]

(***************************************************************************)
(* app.py: trend / baseline layer (HRV block)                              *)
(***************************************************************************)
rolling_mean(series, n, minp) == rolling(series, n, minp)

HasHRV(r) == NotNaN(r.heart_rate_variability)

RECURSIVE MaxDate(_)
MaxDate(rows) ==
    IF Len(rows) = 1 THEN rows[1].date
    ELSE LET m == MaxDate(Tail(rows))
         IN  IF rows[1].date > m THEN rows[1].date ELSE m

\* app.py 92-93 and 102-108: window the table, compute hrv7, baseline30 and
\* hrv_delta_pct over the rows of the FULL table that carry an HRV value, and
\* left-join them onto the window by date
hrv_trend(df, window_days) ==
    LET cut  == MaxDate(df.rows) - window_days
        dff  == SelectSeq(df.rows, LAMBDA r : r.date >= cut)
        full == SelectSeq(df.rows, HasHRV)
        hrv  == [i \in DOMAIN full |-> full[i].heart_rate_variability]
        hrv7 == rolling_mean(hrv, 7, 4)
        baseline30 == rolling(hrv, 30, 14)
        hrv_delta_pct ==
            [i \in DOMAIN full |->
                Div(Mul(R(100), Sub(hrv7[i], baseline30[i])), baseline30[i])]
        Match(d) == {i \in DOMAIN full : full[i].date = d}
    IN  [columns |-> df.columns \o <<"hrv7", "hrv_delta_pct">>,
         rows |->
            [k \in DOMAIN dff |->
                LET m == Match(dff[k].date)
                IN  [date |-> dff[k].date,
                     heart_rate_variability |-> dff[k].heart_rate_variability,
                     hrv7 |-> IF m = {} THEN NaN ELSE hrv7[CHOOSE i \in m : TRUE],
                     hrv_delta_pct |->
                         IF m = {} THEN NaN
                         ELSE hrv_delta_pct[CHOOSE i \in m : TRUE]]]]

MaxHistoryDay == 8   \* HRV histories span the calendar days 1..MaxHistoryDay

HRVSample == R(50)

\* a history gives every calendar day no row, a row without HRV, or a row
\* with HRV; the table is sorted by date (app.py 85)
HRVHistories == [1..MaxHistoryDay -> {"norow", "nan", "value"}]

RECURSIVE HistoryRows(_, _)
HistoryRows(h, d) ==
    IF d > MaxHistoryDay THEN <<>>
    ELSE (IF h[d] = "norow" THEN <<>>
          ELSE <<[date |-> d,
                  heart_rate_variability |->
                      IF h[d] = "nan" THEN NaN ELSE HRVSample]>>)
         \o HistoryRows(h, d + 1)

HistoryFrame(h) ==
    [columns |-> <<"date", "heart_rate_variability">>, rows |-> HistoryRows(h, 1)]

InitTrend ==
    /\ pc = "call"
    /\ fn = "hrv_trend"
    /\ args \in {<<HistoryFrame(h), w>> :
                    h \in {g \in HRVHistories : \E d \in 1..MaxHistoryDay : g[d] # "norow"},
                    w \in {7, 30}}
    /\ ret = None

CallHrvTrend ==
    /\ pc = "call"
    /\ fn = "hrv_trend"
    /\ ret' = hrv_trend(args[1], args[2])
    /\ pc' = "done"
    /\ UNCHANGED <<fn, args>>

SpecTrend == InitTrend /\ [][CallHrvTrend]_vars

\* number of the 7 calendar days ending at d that carry an HRV value
PresentInLast7Days(df, d) ==
    Cardinality({i \in DOMAIN df.rows :
        /\ df.rows[i].date \in (d - 6)..d
        /\ NotNaN(df.rows[i].heart_rate_variability)})

\* C7: for every date of the history, if fewer than 4 of the 7 calendar days
\* ending at that date carry an HRV value, hrv7 and hrv_delta_pct of that date
\* are NaN, however many HRV values exist earlier.
C7_SparseWeekUndefined ==
    (pc = "done" /\ fn = "hrv_trend") =>
        \A k \in DOMAIN ret.rows :
            PresentInLast7Days(args[1], ret.rows[k].date) < 4 =>
                /\ IsNaN(ret.rows[k].hrv7)
                /\ IsNaN(ret.rows[k].hrv_delta_pct)

(***************************************************************************)
(* compute_phase1.py: tables                                               *)
(***************************************************************************)
RECURSIVE ConcatMap(_, _)
ConcatMap(f(_), s) == IF s = <<>> THEN <<>> ELSE f(s[1]) \o ConcatMap(f, Tail(s))

\* ascending sequence of the elements of a finite set of integers
RECURSIVE SortedSeq(_)
SortedSeq(S) ==
    IF S = {} THEN <<>>
    ELSE LET m == CHOOSE x \in S : \A y \in S : x <= y
         IN  <<m>> \o SortedSeq(S \ {m})

\* stable insertion of the pair x into a sequence of pairs sorted by their
\* first component
RECURSIVE InsertByKey(_, _)
InsertByKey(x, s) ==
    IF s = <<>> THEN <<x>>
    ELSE IF x[1] < s[Len(s)][1] THEN
             InsertByKey(x, SubSeq(s, 1, Len(s) - 1)) \o <<s[Len(s)]>>
    ELSE Append(s, x)

\* stable sort of a sequence of pairs by their first component
RECURSIVE SortByKey(_)
SortByKey(s) ==
    IF s = <<>> THEN <<>>
    ELSE InsertByKey(s[Len(s)], SortByKey(SubSeq(s, 1, Len(s) - 1)))

Dates(df) == {df.rows[i].date : i \in DOMAIN df.rows}

NonKeyColumns(df) == SelectSeq(df.columns, LAMBDA c : c # "date")

\* df.groupby("date", as_index=False)[...].sum() or .mean(): one row per distinct date,
\* dates ascending, every other column aggregated over the rows of the date
groupby(df, how) ==
    LET keys == SortedSeq(Dates(df))
        cols == Range(df.columns)
    IN  [columns |-> df.columns,
         rows |->
            [k \in DOMAIN keys |->
                LET grp == SelectSeq(df.rows, LAMBDA r : r.date = keys[k])
                IN  [c \in cols |->
                        IF c = "date" THEN keys[k]
                        ELSE IF how = "sum"
                             THEN sum([i \in DOMAIN grp |-> grp[i][c]])
                             ELSE mean([i \in DOMAIN grp |-> grp[i][c]])]]]

\* mutant: a left join, dates found only in the right table are lost
Mutant_merge(left, right) ==
    LET rcols == NonKeyColumns(right)
        Match(l) ==
            LET rs == SelectSeq(right.rows, LAMBDA r : r.date = l.date)
            IN  IF rs = <<>>
                THEN <<l @@ [c \in Range(rcols) |-> NaN]>>
                ELSE [j \in DOMAIN rs |-> l @@ [c \in Range(rcols) |-> rs[j][c]]]
    IN  [columns |-> left.columns \o rcols,
         rows    |-> ConcatMap(Match, left.rows)]

\* left.merge(right, on="date", how="outer"): the union of the dates in
\* ascending order; a date present on both sides gives one row per pair of
\* matching rows, a date present on one side gives that side's rows with NaN
\* in the other side's columns
merge(left, right) ==
    LET keys  == SortedSeq(Dates(left) \cup Dates(right))
        lcols == NonKeyColumns(left)
        rcols == NonKeyColumns(right)
        ForKey(d) ==
            LET ls == SelectSeq(left.rows, LAMBDA r : r.date = d)
                rs == SelectSeq(right.rows, LAMBDA r : r.date = d)
                lnan == [c \in Range(lcols) |-> NaN]
                rnan == [c \in Range(rcols) |-> NaN]
                lv == IF ls = <<>> THEN <<lnan>>
                      ELSE [i \in DOMAIN ls |-> [c \in Range(lcols) |-> ls[i][c]]]
                rv == IF rs = <<>> THEN <<rnan>>
                      ELSE [j \in DOMAIN rs |-> [c \in Range(rcols) |-> rs[j][c]]]
                Pair(l) == [j \in DOMAIN rv |-> ("date" :> d) @@ l @@ rv[j]]
            IN  ConcatMap(Pair, lv)
    IN  [columns |-> <<"date">> \o lcols \o rcols,
         rows    |-> ConcatMap(ForKey, keys)]

\* df.sort_values("date")
sort_values(df) ==
    LET keyed  == [i \in DOMAIN df.rows |-> <<df.rows[i].date, df.rows[i]>>]
        sorted == SortByKey(keyed)
    IN  [columns |-> df.columns, rows |-> [i \in DOMAIN sorted |-> sorted[i][2]]]

(***************************************************************************)
(* compute_phase1.py: timestamps                                           *)
(***************************************************************************)
\* parser.parse(ts).replace(tzinfo=None): the wall-clock reading is kept, the
\* offset is dropped without conversion; result in seconds since day 0
naive(ts) == ts[1] * 86400 + ts[2]

\* pd.Timestamp(dt).normalize(): the calendar day of a naive time
normalize(t) == t \div 86400

_to_day(ts) == normalize(naive(ts))

root_of(p) == Get(p, "data", p)

(***************************************************************************)
(* compute_phase1.py: extract_metric_series, extract_sleep_analysis        *)
(***************************************************************************)
sum_metrics == {"mindful_minutes", "alcohol_consumption"}

\* mutant: every metric is averaged
Mutant_extract_metric_series(payloads, metric_name, value_key) ==
    LET PointRows(d) ==
            IF "date" \notin DOMAIN d THEN <<>>
            ELSE IF Get(d, value_key, None) = None THEN <<>>
            ELSE <<("date" :> _to_day(d.date)) @@ (metric_name :> d[value_key])>>
        MetricRows(m) ==
            IF Get(m, "name", "") # metric_name THEN <<>>
            ELSE ConcatMap(PointRows, Get(m, "data", <<>>))
        PayloadRows(p) == ConcatMap(MetricRows, Get(root_of(p), "metrics", <<>>))
        rows == ConcatMap(PayloadRows, payloads)
        df == IF rows = <<>> THEN EmptyFrame
              ELSE [columns |-> <<"date", metric_name>>, rows |-> rows]
    IN  IF empty(df) THEN df ELSE groupby(df, "mean")

extract_metric_series(payloads, metric_name, value_key) ==
    LET PointRows(d) ==
            IF "date" \notin DOMAIN d THEN <<>>
            ELSE IF Get(d, value_key, None) = None THEN <<>>
            ELSE <<("date" :> _to_day(d.date)) @@ (metric_name :> d[value_key])>>
        MetricRows(m) ==
            IF Get(m, "name", "") # metric_name THEN <<>>
            ELSE ConcatMap(PointRows, Get(m, "data", <<>>))
        PayloadRows(p) == ConcatMap(MetricRows, Get(root_of(p), "metrics", <<>>))
        rows == ConcatMap(PayloadRows, payloads)
        df == IF rows = <<>> THEN EmptyFrame
              ELSE [columns |-> <<"date", metric_name>>, rows |-> rows]
    IN  IF empty(df) THEN df
        ELSE IF metric_name \in sum_metrics THEN groupby(df, "sum")
        ELSE groupby(df, "mean")

\* float(d.get("awake", 0.0) or 0.0)
awake_of(d) ==
    LET a == Get(d, "awake", R(0))
    IN  IF a = None \/ a = R(0) THEN R(0) ELSE a

extract_sleep_analysis(payloads) ==
    LET PointRows(d) ==
            IF "date" \notin DOMAIN d THEN <<>>
            ELSE IF Get(d, "totalSleep", None) = None THEN <<>>
            ELSE <<[date |-> _to_day(d.date),
                    sleep_total_hr |-> d.totalSleep,
                    sleep_awake_hr |-> awake_of(d)]>>
        MetricRows(m) ==
            IF Get(m, "name", "") # "sleep_analysis" THEN <<>>
            ELSE ConcatMap(PointRows, Get(m, "data", <<>>))
        PayloadRows(p) == ConcatMap(MetricRows, Get(root_of(p), "metrics", <<>>))
        rows == ConcatMap(PayloadRows, payloads)
        df == IF rows = <<>> THEN EmptyFrame
              ELSE [columns |-> <<"date", "sleep_total_hr", "sleep_awake_hr">>,
                    rows |-> rows]
    IN  IF empty(df) THEN df ELSE groupby(df, "mean")

(***************************************************************************)
(* compute_phase1.py: compute_zone_minutes_and_hrr1                        *)
(***************************************************************************)
MinSamples == 5

\* pts of a workout: (naive time, float(Avg)) of the samples carrying both
valid_points(hr_points) ==
    LET Point(hp) ==
            IF Get(hp, "Avg", None) = None \/ Get(hp, "date", None) = None
            THEN <<>>
            ELSE << <<naive(hp.date), hp.Avg>> >>
    IN  ConcatMap(Point, hr_points)

\* zmins[z] after the tally loop
zone_count(pts, z) ==
    Cardinality({i \in DOMAIN pts : _classify_zone(pts[i][2]) = z})

\* max(range(len(pts)), key=lambda i: pts[i][1]): first index of the maximum
peak_index(pts) ==
    CHOOSE i \in DOMAIN pts :
        /\ \A j \in DOMAIN pts : Le(pts[j][2], pts[i][2])
        /\ \A j \in 1..(i - 1) : Lt(pts[j][2], pts[i][2])

\* lines 163-177: peak, first sample from the peak on at or after peak + 60 s,
\* else the last sample
hrr1_of(pts) ==
    LET peak_idx == peak_index(pts)
        peak_t   == pts[peak_idx][1]
        peak_hr  == pts[peak_idx][2]
        target_t == peak_t + 60
        after    == {i \in peak_idx..Len(pts) : pts[i][1] >= target_t}
        post_hr  == IF after = {} THEN pts[Len(pts)][2]
                    ELSE pts[CHOOSE i \in after : \A j \in after : i <= j][2]
    IN  Sub(peak_hr, post_hr)

\* mutant: the samples are used in input order
Mutant_sort_points(pts) == pts

\* pts.sort(key=lambda x: x[0])
sort_points(pts) == SortByKey(pts)

\* body of the loop over workouts (lines 121-178): the rows one workout
\* appends to daily_rows and hrr_rows
process_workout(w) ==
    LET hr_points == Get(w, "heartRateData", None)
        unsorted  == IF hr_points = None THEN <<>> ELSE valid_points(hr_points)
        pts       == sort_points(unsorted)
        day       == IF Get(w, "end", None) # None THEN _to_day(w.end)
                     ELSE normalize(pts[Len(pts)][1])
        total     == Cardinality({i \in DOMAIN pts :
                                    _classify_zone(pts[i][2]) \in ZoneNames})
        skip      == [daily_rows |-> <<>>, hrr_rows |-> <<>>]
    IN  IF hr_points = None \/ hr_points = <<>> THEN skip
        ELSE IF Len(unsorted) < MinSamples THEN skip
        ELSE IF total = 0 THEN skip
        ELSE [daily_rows |->
                <<[date |-> day,
                   z1_min |-> R(zone_count(pts, "Z1")),
                   z2_min |-> R(zone_count(pts, "Z2")),
                   z3_min |-> R(zone_count(pts, "Z3")),
                   z4_min |-> R(zone_count(pts, "Z4")),
                   z5_min |-> R(zone_count(pts, "Z5")),
                   cardio_min |-> R(total),
                   zone2_pct |-> Div(Mul(R(100), R(zone_count(pts, "Z2"))), R(total))]>>,
              hrr_rows |-> <<[date |-> day, hrr1 |-> hrr1_of(pts)]>>]

DailyColumns ==
    <<"date", "z1_min", "z2_min", "z3_min", "z4_min", "z5_min", "cardio_min",
      "zone2_pct">>

\* mutant: zone2_pct keeps the sum of the workouts' percentages
Mutant_recompute_zone2_pct(daily) == daily

\* line 185: zone2_pct from the summed totals, divisor 1 when cardio_min is 0
recompute_zone2_pct(daily) ==
    [columns |-> daily.columns,
     rows |->
        [i \in DOMAIN daily.rows |->
            LET r == daily.rows[i]
                divisor == IF Gt(r.cardio_min, R(0)) THEN r.cardio_min ELSE R(1)
            IN  [r EXCEPT !.zone2_pct = Div(Mul(R(100), r.z2_min), divisor)]]]

workouts_of(payloads) ==
    ConcatMap(LAMBDA p : Get(root_of(p), "workouts", <<>>), payloads)

compute_zone_minutes_and_hrr1(payloads) ==
    LET ws         == workouts_of(payloads)
        appended   == [k \in DOMAIN ws |-> process_workout(ws[k])]
        daily_rows == ConcatMap(LAMBDA a : a.daily_rows, appended)
        hrr_rows   == ConcatMap(LAMBDA a : a.hrr_rows, appended)
        daily      == IF daily_rows = <<>> THEN EmptyFrame
                      ELSE [columns |-> DailyColumns, rows |-> daily_rows]
        hrr        == IF hrr_rows = <<>> THEN EmptyFrame
                      ELSE [columns |-> <<"date", "hrr1">>, rows |-> hrr_rows]
    IN  [daily |-> IF empty(daily) THEN daily
                   ELSE recompute_zone2_pct(groupby(daily, "sum")),
         hrr   |-> IF empty(hrr) THEN hrr ELSE groupby(hrr, "mean")]

(***************************************************************************)
(* compute_phase1.py: build_phase1_daily                                   *)
(***************************************************************************)
\* the loop of lines 208-212 over dfs[i..]
RECURSIVE merge_all(_, _, _)
merge_all(dfs, i, base) ==
    IF i > Len(dfs) THEN base
    ELSE IF empty(dfs[i]) THEN merge_all(dfs, i + 1, base)
    ELSE Bind(IF base = None THEN dfs[i] ELSE merge(base, dfs[i]),
              LAMBDA b : merge_all(dfs, i + 1, b))

\* the metrics read with extract_metric_series, in the order hrv, rhr, rr, bd,
\* mm, alc of lines 194-199
series_names ==
    <<"heart_rate_variability", "resting_heart_rate", "respiratory_rate",
      "breathing_disturbances", "mindful_minutes", "alcohol_consumption">>

\* the nine source tables, in the order of the list dfs
source_tables(payloads) ==
    LET series == [i \in DOMAIN series_names |->
                      extract_metric_series(payloads, series_names[i], "qty")]
        sleep == extract_sleep_analysis(payloads)
        sleep_score == derive_sleep_score(sleep)
        w == compute_zone_minutes_and_hrr1(payloads)
    IN  <<w.daily, w.hrr>> \o series \o <<sleep_score>>

build_phase1_daily(payloads) ==
    LET Finish(base) ==
            IF base = None THEN [columns |-> <<"date">>, rows |-> <<>>]
            ELSE sort_values(base)
    IN  Bind(source_tables(payloads),
             LAMBDA dfs : Bind(merge_all(dfs, 1, None), Finish))

(***************************************************************************)
(* Inputs and specification: extract_metric_series                         *)
(***************************************************************************)
MaxPoints == 2      \* data points of a payload list

\* day 1 at 00:00 UTC, day 1 at 23:00 UTC-5, day 2 at 00:00 UTC
PointDates == {<<1, 0, 0>>, <<1, 82800, -5>>, <<2, 0, 0>>}

DataPoints ==
    {[date |-> t, qty |-> q] : t \in PointDates, q \in {R(5), R(3), None}}
    \cup {[qty |-> q] : q \in {R(5), R(3)}}
    \cup {[date |-> t] : t \in {<<1, 0, 0>>}}

SeriesNames == {"alcohol_consumption", "heart_rate_variability"}

\* a placed point: the payload and the metric entry a data point is filed in
Placements == [payload : 1..2, name : SeriesNames, point : DataPoints]

PlacementSeqs == UNION {[1..n -> Placements] : n \in 0..MaxPoints}

\* payload k of a placement sequence: one metric entry per name that has
\* points; the first payload is flat, the second nests under "data"
PlacedPayload(ps, k) ==
    LET Entry(name) ==
            LET pts == SelectSeq(ps, LAMBDA x : x.payload = k /\ x.name = name)
            IN  IF pts = <<>> THEN <<>>
                ELSE <<[name |-> name, units |-> "count",
                        data |-> [i \in DOMAIN pts |-> pts[i].point]]>>
        root == [metrics |-> Entry("alcohol_consumption")
                             \o Entry("heart_rate_variability")]
    IN  IF k = 1 THEN root ELSE [data |-> root]

PlacedPayloads(ps) == <<PlacedPayload(ps, 1), PlacedPayload(ps, 2)>>

InitMetric ==
    /\ pc = "call"
    /\ fn = "extract_metric_series"
    /\ args \in {<<PlacedPayloads(ps), name, "qty">> :
                    ps \in PlacementSeqs, name \in SeriesNames}
    /\ ret = None

CallExtractMetricSeries ==
    /\ pc = "call"
    /\ fn = "extract_metric_series"
    /\ ret' = extract_metric_series(args[1], args[2], args[3])
    /\ pc' = "done"
    /\ UNCHANGED <<fn, args>>

SpecMetric == InitMetric /\ [][CallExtractMetricSeries]_vars

RECURSIVE SetSum(_, _)
SetSum(f(_), S) ==
    IF S = {} THEN R(0)
    ELSE LET x == CHOOSE y \in S : TRUE
         IN  Add(f(x), SetSum(f, S \ {x}))

\* positions <<payload, metric entry, data point>> of the data points of the
\* named metric that carry a date and a non-null value
MatchingPoints(payloads, name, key) ==
    {pos \in UNION {UNION {{<<k, m, i>> :
                              i \in DOMAIN root_of(payloads[k]).metrics[m].data} :
                           m \in DOMAIN root_of(payloads[k]).metrics} :
                    k \in DOMAIN payloads} :
        LET e == root_of(payloads[pos[1]]).metrics[pos[2]]
            d == e.data[pos[3]]
        IN  /\ e.name = name
            /\ "date" \in DOMAIN d
            /\ key \in DOMAIN d
            /\ d[key] # None}

PointAt(payloads, pos) == root_of(payloads[pos[1]]).metrics[pos[2]].data[pos[3]]

\* the calendar day written in a timestamp
WallDay(ts) == ts[1]

MetricDone == pc = "done" /\ fn = "extract_metric_series"

\* C5: extract_metric_series returns one row per calendar day on which a data
\* point of the named metric with a date and a non-null value falls, from
\* whatever payload; the row's value is the sum of those values for
\* mindful_minutes and alcohol_consumption and their arithmetic mean for every
\* other metric; points lacking a date or a value change nothing and without
\* a matching point the result has no rows.
C5_MetricSeries ==
    MetricDone =>
        LET name == args[2]
            pts  == MatchingPoints(args[1], name, args[3])
            On(D) == {pos \in pts : WallDay(PointAt(args[1], pos).date) = D}
            days == {WallDay(PointAt(args[1], pos).date) : pos \in pts}
            Total(D) == SetSum(LAMBDA pos : PointAt(args[1], pos)[args[3]], On(D))
        IN  /\ (pts = {}) => (ret.rows = <<>>)
            /\ Len(ret.rows) = Cardinality(days)
            /\ \A i \in DOMAIN ret.rows :
                  LET D == ret.rows[i].date
                  IN  /\ D \in days
                      /\ \A j \in DOMAIN ret.rows : j # i => ret.rows[j].date # D
                      /\ ret.rows[i][name] =
                            IF name \in {"mindful_minutes", "alcohol_consumption"}
                            THEN Total(D)
                            ELSE Div(Total(D), R(Cardinality(On(D))))

\* witness of C5: two points of different payloads, 5 and 3, fell on the same
\* day and were averaged to 4 although a point without value was present
C5_Witness ==
    /\ MetricDone
    /\ args[2] = "heart_rate_variability"
    /\ Len(ret.rows) = 1
    /\ ret.rows[1].heart_rate_variability = R(4)
    /\ \E k1, k2 \in DOMAIN args[1] :
          /\ k1 # k2
          /\ \E pos1, pos2 \in MatchingPoints(args[1], args[2], args[3]) :
                pos1[1] = k1 /\ pos2[1] = k2

\* second witness for the sum metrics: 5 and 3 on one day gave 8
C5_WitnessSum ==
    /\ MetricDone
    /\ args[2] = "alcohol_consumption"
    /\ Len(ret.rows) = 1
    /\ ret.rows[1].alcohol_consumption = R(8)

(***************************************************************************)
(* Inputs and specification: compute_zone_minutes_and_hrr1, HRR1           *)
(***************************************************************************)
MaxHRRSamples == 5  \* heart-rate samples of a workout in the HRR1 inputs

Sample(t, v) == [date |-> <<1, t, 0>>, Avg |-> R(v)]

\* the worked example of the specification, in time order
ExampleSamples ==
    <<Sample(0, 100), Sample(30, 140), Sample(60, 150), Sample(90, 120),
      Sample(150, 110)>>

HRRSamples == {Sample(t, v) : t \in {0, 30, 60}, v \in {100, 150}}

HRRWorkouts ==
    {[name |-> "Run", heartRateData |-> [i \in 1..5 |-> ExampleSamples[f[i]]]] :
        f \in Permutations(1..5)}
    \cup
    {[name |-> "Run", heartRateData |-> h] :
        h \in UNION {[1..n -> HRRSamples] : n \in MinSamples..MaxHRRSamples}}

InitHRR ==
    /\ pc = "call"
    /\ fn = "compute_zone_minutes_and_hrr1"
    /\ args \in {<< <<[workouts |-> <<w>>]>> >> : w \in HRRWorkouts}
    /\ ret = None

CallComputeZoneMinutesAndHrr1 ==
    /\ pc = "call"
    /\ fn = "compute_zone_minutes_and_hrr1"
    /\ ret' = compute_zone_minutes_and_hrr1(args[1])
    /\ pc' = "done"
    /\ UNCHANGED <<fn, args>>

SpecHRR == InitHRR /\ [][CallComputeZoneMinutesAndHrr1]_vars

WorkoutDone == pc = "done" /\ fn = "compute_zone_minutes_and_hrr1"

\* sample i comes before sample j in time order (ties keep the input order)
Before(h, i, j) ==
    \/ naive(h[i].date) < naive(h[j].date)
    \/ (naive(h[i].date) = naive(h[j].date) /\ i <= j)

\* the first in time order of a non-empty set of sample positions
FirstOf(h, S) == CHOOSE i \in S : \A j \in S : Before(h, i, j)

LastOf(h, S) == CHOOSE i \in S : \A j \in S : Before(h, j, i)

\* HRR1 of a workout whose samples h are all valid, as the claim defines it
ExpectedHRR1(h) ==
    LET top  == {i \in DOMAIN h : \A j \in DOMAIN h : Le(h[j].Avg, h[i].Avg)}
        peak == FirstOf(h, top)
        rec  == {i \in DOMAIN h :
                    /\ Before(h, peak, i)
                    /\ naive(h[i].date) >= naive(h[peak].date) + 60}
        post == IF rec = {} THEN LastOf(h, DOMAIN h) ELSE FirstOf(h, rec)
    IN  Sub(h[peak].Avg, h[post].Avg)

\* C6: whatever the input order of the samples, HRR1 of a workout is the peak
\* value (first sample of maximum value in time order) minus the value of the
\* first sample from the peak on whose timestamp is >= peak time + 60 s, or of
\* the last sample in time order when there is none; the example
\* 100@0s, 140@30s, 150@60s, 120@90s, 110@150s gives 40.
C6_HRR1 ==
    WorkoutDone =>
        LET h == args[1][1].workouts[1].heartRateData
        IN  (Len(args[1]) = 1 /\ Len(args[1][1].workouts) = 1
             /\ \A i \in DOMAIN h : DOMAIN h[i] = {"date", "Avg"} /\ h[i].Avg # None
             /\ Len(h) >= MinSamples /\ "end" \notin DOMAIN args[1][1].workouts[1]) =>
                /\ Len(ret.hrr.rows) = 1
                /\ ret.hrr.rows[1].hrr1 = ExpectedHRR1(h)
                /\ (Range(h) = Range(ExampleSamples) /\ Len(h) = 5) =>
                      ret.hrr.rows[1].hrr1 = R(40)

\* witness of C6: the example, given out of time order, yields 40
C6_Witness ==
    /\ WorkoutDone
    /\ Len(args[1]) = 1
    /\ LET h == args[1][1].workouts[1].heartRateData
       IN  /\ Range(h) = Range(ExampleSamples)
           /\ h # ExampleSamples
           /\ h[1] = ExampleSamples[5]
    /\ ret.hrr.rows[1].hrr1 = R(40)

(***************************************************************************)
(* Inputs and specification: compute_zone_minutes_and_hrr1, zone minutes   *)
(***************************************************************************)
MaxSamples == 6        \* heart-rate samples of the first workout
MaxExtraWorkouts == 1  \* further workouts after the first

\* a workout shape counts its samples by kind: 100 bpm (Z1), 110 bpm (Z2),
\* 105.5 bpm (between Z1 and Z2) and samples lacking Avg or date
Shapes ==
    {s \in [z1 : 0..MaxSamples, z2 : 0..MaxSamples, mid : 0..MaxSamples,
            bad : 0..MaxSamples] :
        s.z1 + s.z2 + s.mid + s.bad \in (MinSamples - 1)..MaxSamples}

CleanShapes == {s \in Shapes : s.mid = 0 /\ s.bad = 0 /\ s.z1 + s.z2 = MinSamples}

\* the samples of a shape, one a minute from 00:00 of day 1; samples lacking a
\* field alternate between a null Avg and a missing date
ShapeSamples(s) ==
    [i \in 1..(s.z1 + s.z2 + s.mid + s.bad) |->
        LET t == <<1, 60 * i, 0>>
        IN  IF i <= s.bad THEN
                (IF i % 2 = 1 THEN [date |-> t, Avg |-> None] ELSE [Avg |-> R(100)])
            ELSE IF i <= s.bad + s.z2 THEN [date |-> t, Avg |-> R(110)]
            ELSE IF i <= s.bad + s.z2 + s.mid THEN [date |-> t, Avg |-> Rat(211, 2)]
            ELSE [date |-> t, Avg |-> R(100)]]

\* a workout either has no end (its day is the day of its last sample, day 1)
\* or ends on day 2
ShapeWorkouts(shapes) ==
    {[name |-> "Run", heartRateData |-> ShapeSamples(s)] : s \in shapes}
    \cup
    {[name |-> "Run", end |-> <<2, 600, 0>>, heartRateData |-> ShapeSamples(s)] :
        s \in shapes}

ExtraSeqs == UNION {[1..n -> ShapeWorkouts(CleanShapes)] : n \in 0..MaxExtraWorkouts}

\* the first workout in a flat payload, the others in a payload nested under
\* "data"
WorkoutPayloads ==
    {<<[workouts |-> <<w>>], [data |-> [workouts |-> x]]>> :
        w \in ShapeWorkouts(Shapes), x \in ExtraSeqs}

InitWorkout ==
    /\ pc = "call"
    /\ fn = "compute_zone_minutes_and_hrr1"
    /\ args \in {<<p>> : p \in WorkoutPayloads}
    /\ ret = None

SpecWorkout == InitWorkout /\ [][CallComputeZoneMinutesAndHrr1]_vars

\* positions of the samples of a workout that carry both a date and an Avg
ValidSamples(w) ==
    {i \in DOMAIN w.heartRateData :
        LET hp == w.heartRateData[i]
        IN  /\ "date" \in DOMAIN hp /\ hp.date # None
            /\ "Avg" \in DOMAIN hp /\ hp.Avg # None}

\* the calendar day a workout is booked on
WorkoutDay(w) ==
    IF "end" \in DOMAIN w THEN WallDay(w.end)
    ELSE LET v == ValidSamples(w)
         IN  WallDay(w.heartRateData[LastOf(w.heartRateData, v)].date)

\* workouts of a payload list with at least MinSamples valid samples, as
\* positions in the flattened list of workouts
Accepted(payloads) ==
    LET ws == workouts_of(payloads)
    IN  {k \in DOMAIN ws : Cardinality(ValidSamples(ws[k])) >= MinSamples}

\* number of valid samples of workout w inside band n of ZONES
BandCount(w, n) ==
    Cardinality({i \in ValidSamples(w) :
        _classify_zone(w.heartRateData[i].Avg) = ZONES[n][1]})

BandColumn(n) == <<"z1_min", "z2_min", "z3_min", "z4_min", "z5_min">>[n]

\* C3: in every daily row each zN_min is the sum of that zone's sample counts
\* over the workouts accumulated onto the day, cardio_min is the sum of the
\* five zone columns, zone2_pct is 100 * z2_min / cardio_min of those summed
\* totals, lies in [0, 100], and is 0 when cardio_min is 0.
C3_DailyZoneTotals ==
    WorkoutDone =>
        LET ws == workouts_of(args[1])
            acc == Accepted(args[1])
        IN  \A i \in DOMAIN ret.daily.rows :
                LET r == ret.daily.rows[i]
                    on == {k \in acc : WorkoutDay(ws[k]) = r.date}
                IN  /\ \A n \in 1..5 :
                          r[BandColumn(n)] =
                              SetSum(LAMBDA k : R(BandCount(ws[k], n)), on)
                    /\ r.cardio_min =
                          SetSum(LAMBDA n : r[BandColumn(n)], 1..5)
                    /\ Gt(r.cardio_min, R(0)) =>
                          Mul(r.zone2_pct, r.cardio_min) = Mul(R(100), r.z2_min)
                    /\ Le(R(0), r.zone2_pct) /\ Le(r.zone2_pct, R(100))
                    /\ (r.cardio_min = R(0)) => (r.zone2_pct = R(0))

\* witness of C3: two workouts with different zone-2 shares were accumulated
\* onto one day
C3_Witness ==
    /\ WorkoutDone
    /\ Len(workouts_of(args[1])) = 2
    /\ Len(ret.daily.rows) = 1
    /\ ret.daily.rows[1].cardio_min = R(10)
    /\ ret.daily.rows[1].z2_min = R(7)
    /\ ret.daily.rows[1].zone2_pct = R(70)
    /\ LET ws == workouts_of(args[1])
       IN  BandCount(ws[1], 2) = 5 /\ BandCount(ws[2], 2) = 2

\* C9: a workout contributes to the daily zone-minute table and to the daily
\* HRR1 table if and only if it has at least 5 valid samples, whatever zones
\* its samples classify into: the days of both tables are exactly the days of
\* the workouts with at least 5 valid samples.
C9_FiveValidSamplesContribute ==
    WorkoutDone =>
        LET ws   == workouts_of(args[1])
            days == {WorkoutDay(ws[k]) : k \in Accepted(args[1])}
        IN  /\ Dates(ret.daily) = days
            /\ Dates(ret.hrr) = days

(***************************************************************************)
(* Inputs and specification: build_phase1_daily                            *)
(***************************************************************************)
MaxPayloads == 2    \* payloads of a payload list
MaxDay == 2         \* the payloads cover the calendar days 1..MaxDay

\* one reading of 3 or 5 per payload
MetricPayloads ==
    {[metrics |-> <<[name |-> n, units |-> "count",
                     data |-> <<[date |-> <<d, 3600, 0>>, qty |-> v]>>]>>] :
        n \in {"heart_rate_variability", "alcohol_consumption"},
        d \in 1..MaxDay, v \in {R(3), R(5)}}

\* one night of 3 or 5 hours, half an hour awake, per payload
SleepPayloads ==
    {[metrics |-> <<[name |-> "sleep_analysis", units |-> "hr",
                     data |-> <<[date |-> <<d, 3600, 0>>, totalSleep |-> v,
                                 awake |-> Rat(1, 2)]>>]>>] :
        d \in 1..MaxDay, v \in {R(3), R(5)}}

\* the worked example run on day d, without an end
RunOn(d) ==
    [name |-> "Run",
     heartRateData |-> [i \in 1..5 |->
         [date |-> <<d, ExampleSamples[i].date[2], 0>>,
          Avg |-> ExampleSamples[i].Avg]]]

\* five samples at 110 bpm on day 1, the workout ending on day d
WalkEnding(d) ==
    [name |-> "Walk", end |-> <<d, 7200, 0>>,
     heartRateData |-> [i \in 1..5 |-> [date |-> <<1, 60 * i, 0>>, Avg |-> R(110)]]]

BuildWorkoutPayloads ==
    {[data |-> [workouts |-> <<w>>]] :
        w \in {RunOn(d) : d \in 1..MaxDay} \cup {WalkEnding(d) : d \in 1..MaxDay}}

PayloadCatalog == MetricPayloads \cup SleepPayloads \cup BuildWorkoutPayloads

PayloadLists == UNION {[1..n -> PayloadCatalog] : n \in 0..MaxPayloads}

Init ==
    /\ pc = "call"
    /\ fn = "build_phase1_daily"
    /\ args \in {<<p>> : p \in PayloadLists}
    /\ ret = None

CallBuildPhase1Daily ==
    /\ pc = "call"
    /\ fn = "build_phase1_daily"
    /\ ret' = build_phase1_daily(args[1])
    /\ pc' = "done"
    /\ UNCHANGED <<fn, args>>

Next == CallBuildPhase1Daily

Spec == Init /\ [][Next]_vars

BuildDone == pc = "done" /\ fn = "build_phase1_daily"

SourceDates(payloads) ==
    LET dfs == source_tables(payloads)
    IN  UNION {Dates(dfs[i]) : i \in DOMAIN dfs}

\* C1: the table returned by build_phase1_daily has exactly one row per
\* distinct calendar date occurring in any non-empty source table, no date in
\* two rows, rows in ascending date order.
C1_OneRowPerDate ==
    BuildDone =>
        /\ Dates(ret) = SourceDates(args[1])
        /\ Len(ret.rows) = Cardinality(SourceDates(args[1]))
        /\ \A i, j \in DOMAIN ret.rows : i < j => ret.rows[i].date < ret.rows[j].date

\* witness of C1: three source tables were joined, one date occurring in
\* several of them, a later table holding an earlier date than an earlier one
C1_Witness ==
    /\ BuildDone
    /\ Len(ret.rows) = 2
    /\ LET dfs == source_tables(args[1])
       IN  /\ Cardinality({i \in DOMAIN dfs : ~empty(dfs[i])}) >= 3
           /\ \E i, j \in DOMAIN dfs : i # j /\ Dates(dfs[i]) \cap Dates(dfs[j]) # {}
           /\ \E i, j \in DOMAIN dfs :
                 /\ i < j
                 /\ Dates(dfs[i]) = {2}
                 /\ Dates(dfs[j]) = {1}

\* a payload list reordered by the permutation f of its positions
Reordered(payloads, f) == [i \in DOMAIN payloads |-> payloads[f[i]]]

\* the single flat payload holding every metric entry and workout of a list
Joined(payloads) ==
    [metrics  |-> ConcatMap(LAMBDA p : Get(root_of(p), "metrics", <<>>), payloads),
     workouts |-> workouts_of(payloads)]

\* C10: the daily table depends only on the multiset of payloads: every
\* permutation of the payload list, and the same metric entries and workouts
\* placed in one payload, give the same dates and the same value in every
\* column of every date.
C10_OrderIndependent ==
    BuildDone =>
        /\ \A f \in Permutations(DOMAIN args[1]) :
              build_phase1_daily(Reordered(args[1], f)) = ret
        /\ build_phase1_daily(<<Joined(args[1])>>) = ret

\* witness of C10: two payloads carry different HRV values for day 2, the
\* larger one first
C10_Witness ==
    /\ BuildDone
    /\ Len(args[1]) = 2
    /\ args[1][1] # args[1][2]
    /\ Len(ret.rows) = 1
    /\ ret.rows[1].date = 2
    /\ ret.columns = <<"date", "heart_rate_variability">>
    /\ ret.rows[1].heart_rate_variability = R(4)
    /\ args[1][1].metrics[1].data[1].qty = R(5)

====
